---- MODULE Spec2Model ----
(***************************************************************************)
(* karpx: the concurrent multi-cluster status aggregator                   *)
(* (internal/ui/server.go: checkClusters, inspectContext, withTimeout)     *)
(* together with the helpers it calls (internal/compat/matrix.go,          *)
(* internal/helm/detect.go, internal/kube).                                *)
(*                                                                         *)
(* Version strings are modelled structurally.  A string such as            *)
(* "v1.29.0-eks" is the record                                             *)
(*     [v |-> TRUE, nums |-> <<1, 29, 0>>, pre |-> "eks", meta |-> ""]     *)
(* i.e. an optional leading "v", the dot-separated numeric components,     *)
(* the text after the first "-" and the text after the first "+".  The     *)
(* empty string is the record with no components.  A component that is    *)
(* not a number ("garbage", "x" in "1.x") is written -1.                   *)
(***************************************************************************)
EXTENDS Integers, Sequences, FiniteSets, TLC

\* ------------------------------------------------------------------------
\* Bounds of the model
\* ------------------------------------------------------------------------

\* Longest list of contexts handed to checkClusters in the step-by-step model.
MaxContexts == 2

\* How many contexts beyond the semaphore's capacity the pool model inspects.
PoolExtra == 1

\* ------------------------------------------------------------------------
\* Version strings and semantic versions (Masterminds/semver v3)
\* ------------------------------------------------------------------------

VStr(nums) == [v |-> FALSE, nums |-> nums, pre |-> "", meta |-> ""]

\* The empty string "".
NoStr == VStr(<<>>)

\* strings.TrimPrefix(s, "v")
TrimPrefixV(s) == [s EXCEPT !.v = FALSE]

\* semver.NewVersion: an optional "v", one to three numeric components
\* (missing ones are zero), an optional prerelease and build metadata.
NewVersionOk(s) == Len(s.nums) \in 1..3 /\ \A i \in 1..Len(s.nums) : s.nums[i] >= 0

NewVersion(s) ==
  [n   |-> [i \in 1..3 |-> IF i <= Len(s.nums) THEN s.nums[i] ELSE 0],
   pre |-> s.pre]

\* Version.Compare: -1, 0 or 1.  Build metadata is ignored; a prerelease
\* sorts before the release with the same numbers.
CompareNums(a, b) ==
  IF a[1] # b[1] THEN (IF a[1] < b[1] THEN -1 ELSE 1)
  ELSE IF a[2] # b[2] THEN (IF a[2] < b[2] THEN -1 ELSE 1)
  ELSE IF a[3] # b[3] THEN (IF a[3] < b[3] THEN -1 ELSE 1)
  ELSE 0

Compare(a, b) ==
  LET c == CompareNums(a.n, b.n) IN
  IF c # 0 THEN c
  ELSE IF a.pre = b.pre THEN 0
  ELSE IF a.pre = "" THEN 1
  ELSE IF b.pre = "" THEN -1
  ELSE 0

GreaterThan(a, b) == Compare(a, b) = 1

LessThan(a, b) == Compare(a, b) = -1

Ver(nums) == [n |-> nums, pre |-> ""]

\* ------------------------------------------------------------------------
\* internal/compat/matrix.go
\* ------------------------------------------------------------------------

\* Mutant: the table lacks the row of Karpenter 1.4 and later.
compatMatrixWithoutFirstRow ==
  << [lo |-> <<1, 2, 0>>,  hi |-> <<1, 4, 0>>,  k8sMin |-> <<1, 29, 0>>, k8sMax |-> <<1, 32, 99>>],
     [lo |-> <<1, 0, 0>>,  hi |-> <<1, 2, 0>>,  k8sMin |-> <<1, 28, 0>>, k8sMax |-> <<1, 31, 99>>],
     [lo |-> <<0, 37, 0>>, hi |-> <<1, 0, 0>>,  k8sMin |-> <<1, 27, 0>>, k8sMax |-> <<1, 30, 99>>],
     [lo |-> <<0, 35, 0>>, hi |-> <<0, 37, 0>>, k8sMin |-> <<1, 27, 0>>, k8sMax |-> <<1, 29, 99>>],
     [lo |-> <<0, 33, 0>>, hi |-> <<0, 35, 0>>, k8sMin |-> <<1, 26, 0>>, k8sMax |-> <<1, 28, 99>>] >>

\* One rule: the constraint ">= lo, < hi" on the Karpenter version and the
\* inclusive Kubernetes range k8sMin .. k8sMax.
compatMatrix ==
  << [lo |-> <<1, 4, 0>>,  hi |-> <<2, 0, 0>>,  k8sMin |-> <<1, 29, 0>>, k8sMax |-> <<1, 33, 99>>],
     [lo |-> <<1, 2, 0>>,  hi |-> <<1, 4, 0>>,  k8sMin |-> <<1, 29, 0>>, k8sMax |-> <<1, 32, 99>>],
     [lo |-> <<1, 0, 0>>,  hi |-> <<1, 2, 0>>,  k8sMin |-> <<1, 28, 0>>, k8sMax |-> <<1, 31, 99>>],
     [lo |-> <<0, 37, 0>>, hi |-> <<1, 0, 0>>,  k8sMin |-> <<1, 27, 0>>, k8sMax |-> <<1, 30, 99>>],
     [lo |-> <<0, 35, 0>>, hi |-> <<0, 37, 0>>, k8sMin |-> <<1, 27, 0>>, k8sMax |-> <<1, 29, 99>>],
     [lo |-> <<0, 33, 0>>, hi |-> <<0, 35, 0>>, k8sMin |-> <<1, 26, 0>>, k8sMax |-> <<1, 28, 99>>] >>

\* Constraints.Check for ">= lo, < hi": a version with a prerelease never
\* satisfies a constraint that names none.
Check(rule, kv) ==
  /\ kv.pre = ""
  /\ Compare(kv, Ver(rule.lo)) >= 0
  /\ Compare(kv, Ver(rule.hi)) < 0

\* normalise: drop a leading "v", split on ".", pad to three parts with "0",
\* keep the first three.  Text after "-" or "+" stays with the part it
\* follows, so it survives only when that part is among the first three.
\* The empty string splits into one empty part: "" becomes ".0.0".
normalise(s) ==
  LET k == Len(s.nums) IN
  [v    |-> FALSE,
   nums |-> [i \in 1..3 |-> IF i <= k THEN s.nums[i] ELSE IF i = 1 THEN -1 ELSE 0],
   pre  |-> IF k <= 3 THEN s.pre ELSE "",
   meta |-> IF k <= 3 THEN s.meta ELSE ""]

\* The rules whose constraint admits kv, in declaration order.
MatchingRules(kv) == SelectSeq(compatMatrix, LAMBDA r : Check(r, kv))

\* Mutant: a Karpenter version no rule knows is taken to be compatible.
IsCompatibleFailOpen(karpVersion, k8sVersion) ==
  LET ks == TrimPrefixV(karpVersion)
      ns == normalise(k8sVersion)
  IN
  IF ~NewVersionOk(ks) \/ ~NewVersionOk(ns) THEN FALSE
  ELSE LET kv    == NewVersion(ks)
           k8sv  == NewVersion(ns)
           rules == MatchingRules(kv)
       IN IF rules = <<>> THEN TRUE
          ELSE /\ Compare(k8sv, Ver(rules[1].k8sMin)) >= 0
               /\ Compare(k8sv, Ver(rules[1].k8sMax)) <= 0

\* Mutant: the upper end of the Kubernetes range is excluded.
IsCompatibleExclusiveMax(karpVersion, k8sVersion) ==
  LET ks == TrimPrefixV(karpVersion)
      ns == normalise(k8sVersion)
  IN
  IF ~NewVersionOk(ks) \/ ~NewVersionOk(ns) THEN FALSE
  ELSE LET kv    == NewVersion(ks)
           k8sv  == NewVersion(ns)
           rules == MatchingRules(kv)
       IN IF rules = <<>> THEN FALSE
          ELSE /\ Compare(k8sv, Ver(rules[1].k8sMin)) >= 0
               /\ Compare(k8sv, Ver(rules[1].k8sMax)) < 0

IsCompatible(karpVersion, k8sVersion) ==
  LET ks == TrimPrefixV(karpVersion)
      ns == normalise(k8sVersion)
  IN
  IF ~NewVersionOk(ks) \/ ~NewVersionOk(ns) THEN FALSE
  ELSE LET kv    == NewVersion(ks)
           k8sv  == NewVersion(ns)
           rules == MatchingRules(kv)
       IN IF rules = <<>> THEN FALSE
          ELSE /\ Compare(k8sv, Ver(rules[1].k8sMin)) >= 0
               /\ Compare(k8sv, Ver(rules[1].k8sMax)) <= 0

\* sort.Slice(out, less) with less = GreaterThan.  For the short lists
\* handled here sort.Slice is an insertion sort: each element in turn moves
\* left past the elements it is greater than, so equal versions keep their
\* order.
RECURSIVE InsertDesc(_, _)
InsertDesc(x, sorted) ==
  IF sorted = <<>> THEN <<x>>
  ELSE LET last == sorted[Len(sorted)]
           front == SubSeq(sorted, 1, Len(sorted) - 1)
       IN IF GreaterThan(NewVersion(x), NewVersion(last))
          THEN Append(InsertDesc(x, front), last)
          ELSE Append(sorted, x)

RECURSIVE SortDesc(_)
SortDesc(xs) ==
  IF xs = <<>> THEN <<>>
  ELSE InsertDesc(xs[Len(xs)], SortDesc(SubSeq(xs, 1, Len(xs) - 1)))

\* Mutant: IsCompatible is called with its arguments exchanged.
FilterCompatibleSwapped(k8sVersion, available) ==
  SortDesc(SelectSeq(available, LAMBDA x : IsCompatible(k8sVersion, x)))

FilterCompatible(k8sVersion, available) ==
  SortDesc(SelectSeq(available, LAMBDA x : IsCompatible(x, k8sVersion)))

\* Mutant: the first compatible release in fetch order is taken as latest.
LatestCompatibleFirstFetched(k8sVersion, fetched) ==
  IF ~fetched.ok THEN [latest |-> NoStr, all |-> <<>>, err |-> TRUE]
  ELSE LET compatible == FilterCompatible(k8sVersion, fetched.tags)
           unsorted   == SelectSeq(fetched.tags, LAMBDA x : IsCompatible(x, k8sVersion))
       IN
       IF compatible = <<>> THEN [latest |-> NoStr, all |-> <<>>, err |-> FALSE]
       ELSE [latest |-> unsorted[1], all |-> compatible, err |-> FALSE]

\* LatestCompatible: (latest, all, err) from the answer of the release index.
LatestCompatible(k8sVersion, fetched) ==
  IF ~fetched.ok THEN [latest |-> NoStr, all |-> <<>>, err |-> TRUE]
  ELSE LET compatible == FilterCompatible(k8sVersion, fetched.tags) IN
       IF compatible = <<>> THEN [latest |-> NoStr, all |-> <<>>, err |-> FALSE]
       ELSE [latest |-> compatible[1], all |-> compatible, err |-> FALSE]

\* lowerBoundOf: the value after ">=" in the rule's constraint.
lowerBoundOf(rule) == VStr(rule.lo)

RECURSIVE MinLower(_, _, _)
MinLower(k8sv, rules, minVer) ==
  IF rules = <<>> THEN minVer
  ELSE LET r  == Head(rules)
           lb == lowerBoundOf(r)
       IN IF Compare(k8sv, Ver(r.k8sMin)) < 0 \/ Compare(k8sv, Ver(r.k8sMax)) > 0
          THEN MinLower(k8sv, Tail(rules), minVer)
          ELSE IF minVer = NoStr \/ LessThan(NewVersion(lb), NewVersion(minVer))
               THEN MinLower(k8sv, Tail(rules), lb)
               ELSE MinLower(k8sv, Tail(rules), minVer)

\* Mutant: the loop stops at the first rule whose range contains the
\* cluster version.
MinCompatibleKarpenterFirstMatch(k8sVersion) ==
  LET ns == normalise(k8sVersion) IN
  IF ~NewVersionOk(ns) THEN NoStr
  ELSE LET k8sv == NewVersion(ns)
           hits == SelectSeq(compatMatrix, LAMBDA r :
                     Compare(k8sv, Ver(r.k8sMin)) >= 0 /\ Compare(k8sv, Ver(r.k8sMax)) <= 0)
       IN IF hits = <<>> THEN NoStr ELSE lowerBoundOf(hits[1])

MinCompatibleKarpenter(k8sVersion) ==
  LET ns == normalise(k8sVersion) IN
  IF ~NewVersionOk(ns) THEN NoStr
  ELSE MinLower(NewVersion(ns), compatMatrix, NoStr)

\* ------------------------------------------------------------------------
\* What the environment can answer
\* ------------------------------------------------------------------------

\* kubeconfig context names.
Names == {"a", "b"}

ProviderAWS == "aws"
ProviderAzure == "azure"
ProviderGCP == "gcp"
ProviderUnknown == "unknown"

Providers == {ProviderAWS, ProviderAzure, ProviderGCP, ProviderUnknown}

\* What listing a node of a responsive cluster yields: a provider read from
\* its providerID, or a failed call.
NodeAnswers == [ok : {TRUE}, provider : Providers] \cup [ok : {FALSE}, provider : {ProviderUnknown}]

\* Server versions as GetServerVersion returns them ("1.31.0"), or its error.
K8sVersions == {VStr(<<1, 31, 0>>), VStr(<<1, 27, 5>>)}

VersionAnswers == [ok : {TRUE}, v : K8sVersions] \cup [ok : {FALSE}, v : {NoStr}]

\* app_version of the Karpenter release `helm list` reports.
AppVersions == {[VStr(<<1, 5, 0>>) EXCEPT !.v = TRUE], VStr(<<1, 3, 0>>)}

\* helm list: the command or its JSON fails (ok = FALSE), no Karpenter
\* release (found = FALSE), or the first Karpenter release.
HelmAnswers ==
  [ok : {FALSE}, found : {FALSE}, appVersion : {NoStr}]
    \cup [ok : {TRUE}, found : {FALSE}, appVersion : {NoStr}]
    \cup [ok : {TRUE}, found : {TRUE}, appVersion : AppVersions]

\* FetchAvailableVersions: an error, or the stable tags without their "v".
ReleaseAnswers ==
  { [ok |-> FALSE, tags |-> <<>>],
    [ok |-> TRUE,  tags |-> <<>>],
    [ok |-> TRUE,  tags |-> <<VStr(<<0, 37, 0>>), VStr(<<1, 5, 0>>), VStr(<<1, 3, 0>>)>>] }

\* ------------------------------------------------------------------------
\* internal/kube, internal/helm: what the callers see
\* ------------------------------------------------------------------------

\* DetectProvider: the kubeconfig server URL decides when it names a cloud;
\* otherwise the provider is read from a node, and a failed call is unknown.
\* `node` is the answer of the node call when one was made: <<>> or <<answer>>.
DetectProvider(url, node) ==
  IF url # ProviderUnknown THEN url
  ELSE IF node # <<>> /\ node[1].ok THEN node[1].provider ELSE ProviderUnknown

\* DetectKarpenter: Info and error.  Every failure is reported as
\* "not installed" with a nil error.
DetectKarpenter(helm) ==
  IF ~helm.ok \/ ~helm.found
  THEN [Installed |-> FALSE, Version |-> NoStr, err |-> FALSE]
  ELSE [Installed |-> TRUE, Version |-> TrimPrefixV(helm.appVersion), err |-> FALSE]

\* ------------------------------------------------------------------------
\* internal/ui/server.go: ClusterStatus and the steps of inspectContext
\* ------------------------------------------------------------------------

ErrNone == ""
ErrTimeout == "cluster unreachable: timeout after 5s"
ErrVersion == "cluster unreachable: get server version"
ErrHelm == "helm error"

\* The zero value of ClusterStatus; Compatible is a *bool: "nil", "true" or
\* "false".
ClusterStatus ==
  [Context |-> "", Provider |-> "", K8sVersion |-> NoStr,
   KarpenterInstalled |-> FALSE, KarpenterVersion |-> NoStr,
   Compatible |-> "nil", UpgradeAvailable |-> FALSE,
   LatestCompatible |-> NoStr, MinCompatible |-> NoStr, Error |-> ErrNone]

\* s := ClusterStatus{Context: ctx}
NewStatus(ctx) == [ClusterStatus EXCEPT !.Context = ctx]

\* s.Provider = string(provider)
SetProvider(s, provider) == [s EXCEPT !.Provider = provider]

\* withTimeout returned an error: the deadline passed, or GetServerVersion failed.
VersionTimedOut(s) == [s EXCEPT !.Error = ErrTimeout]

VersionFailed(s) == [s EXCEPT !.Error = ErrVersion]

\* s.K8sVersion = k8sVer
SetVersion(s, k8sVer) == [s EXCEPT !.K8sVersion = k8sVer]

\* The branch after helm.DetectKarpenter.
SetKarpenter(s, info) ==
  IF info.err THEN [s EXCEPT !.Error = ErrHelm]
  ELSE [s EXCEPT !.KarpenterInstalled = info.Installed,
                 !.KarpenterVersion = IF info.Installed THEN TrimPrefixV(info.Version) ELSE NoStr]

\* Mutant: the upgrade flag is raised whenever a compatible release exists,
\* also when no controller is installed.
SetCompatFlagsAlways(s, info, fetched) ==
  LET k8sVer    == s.K8sVersion
      latest    == LatestCompatible(k8sVer, fetched).latest
      installed == TrimPrefixV(info.Version)
      withMin   == [s EXCEPT !.MinCompatible = MinCompatibleKarpenter(k8sVer)]
      flagged   == [withMin EXCEPT !.UpgradeAvailable = (latest # NoStr /\ latest # installed),
                                   !.LatestCompatible = latest]
  IN
  IF info.Installed
  THEN [flagged EXCEPT !.Compatible = IF IsCompatible(installed, k8sVer) THEN "true" ELSE "false"]
  ELSE flagged

\* The AWS-only block: minimum from the matrix, latest from the release
\* index (its error is dropped), verdict and upgrade flag when installed.
SetCompat(s, info, fetched) ==
  LET k8sVer    == s.K8sVersion
      latest    == LatestCompatible(k8sVer, fetched).latest
      installed == TrimPrefixV(info.Version)
      withMin   == [s EXCEPT !.MinCompatible = MinCompatibleKarpenter(k8sVer)]
  IN
  IF info.Installed
  THEN LET verdict == [withMin EXCEPT !.Compatible = IF IsCompatible(installed, k8sVer) THEN "true" ELSE "false"] IN
       IF latest # NoStr /\ latest # installed
       THEN [verdict EXCEPT !.UpgradeAvailable = TRUE, !.LatestCompatible = latest]
       ELSE verdict
  ELSE [withMin EXCEPT !.LatestCompatible = latest]

\* Mutant: inspectContext goes on to the controller after a failed or timed
\* out version fetch.
AfterVersionGoesOn(ok) == "helm"

\* Mutant: the compatibility block runs for every provider.
AfterKarpenterAnyProvider(info, provider) == IF info.err THEN "return" ELSE "compat"

\* Where inspectContext goes after each step.
AfterVersion(ok) == IF ok THEN "helm" ELSE "return"

AfterKarpenter(info, provider) ==
  IF info.err THEN "return"
  ELSE IF provider = ProviderAWS THEN "compat" ELSE "return"

\* sem := make(chan struct{}, 8)
SemCap == 8

\* What one inspection has been answered so far: each field is <<>> until
\* the call returns and <<answer>> afterwards; timedOut is set when the
\* deadline of the version fetch passes first.
NoAnswers == [node |-> <<>>, version |-> <<>>, timedOut |-> FALSE, helm |-> <<>>, releases |-> <<>>]

\* inspectContext as a function of the context, the kubeconfig's server URL
\* class and the answers the inspection received.
inspectContext(ctx, url, r) ==
  LET provider == DetectProvider(url, r.node)
      s1       == SetProvider(NewStatus(ctx), provider)
  IN
  IF r.timedOut THEN VersionTimedOut(s1)
  ELSE IF ~r.version[1].ok THEN VersionFailed(s1)
  ELSE LET s2   == SetVersion(s1, r.version[1].v)
           info == DetectKarpenter(r.helm[1])
           s3   == SetKarpenter(s2, info)
       IN IF AfterKarpenter(info, provider) = "compat"
          THEN SetCompat(s3, info, r.releases[1])
          ELSE s3

\* ------------------------------------------------------------------------
\* State
\* ------------------------------------------------------------------------

VARIABLES
  contexts,      \* the argument of checkClusters
  serverURL,     \* per context: the provider its kubeconfig server URL names
  unresponsive,  \* contexts whose cluster never answers a request
  mainPc,        \* checkClusters: "start", "loop", "wait", "returned"
  next,          \* the loop index of checkClusters (1-based)
  wg,            \* the WaitGroup counter
  sem,           \* number of tokens in the channel sem
  results,       \* the slice results
  returned,      \* <<>> until checkClusters returns, then <<its value>>
  pc,            \* per goroutine: where it is
  s,             \* per goroutine: the status inspectContext is building
  fetch,         \* per goroutine: the goroutine withTimeout started
  steps,         \* per goroutine: the pipeline steps executed, in order
  resp,          \* per goroutine: the answers received
  writes,        \* per slot of results: the goroutines that assigned it, in order
  fn,            \* the library function called last, "none" before any call
  arg,           \* its arguments
  out,           \* what it returned
  srv,           \* Serve: "listening", "closing" (Shutdown called), "returned"
  stop,          \* whether the channel stop holds a signal
  response,      \* <<>> until the handler of /api/clusters encodes its results
  current,       \* the TUI's active view
  clusters,      \* DashboardModel.clusters
  cursor,        \* DashboardModel.cursor
  loading,       \* DashboardModel.loading
  loads,         \* loadClusters commands that have not delivered their message
  checks,        \* per context: checkCluster commands still running
  navs,          \* per target: NavigateMsg commands still running
  quit           \* whether the TUI program has ended

\* The state of checkClusters.
serverVars == <<contexts, serverURL, unresponsive, mainPc, next, wg, sem, results,
                returned, pc, s, fetch, steps, resp, writes>>

\* The last call of a function of internal/compat, internal/kube or
\* internal/nodes.
callVars == <<fn, arg, out>>

\* Serve around one request of /api/clusters.
serveVars == <<srv, stop, response>>

\* The terminal UI (internal/tui).
tuiVars == <<current, clusters, cursor, loading, loads, checks, navs, quit>>

vars == <<serverVars, callVars, serveVars, tuiVars>>

N == Len(contexts)

Tasks == 1..N

URLOf(i) == serverURL[contexts[i]]

Responsive(i) == contexts[i] \notin unresponsive

\* ------------------------------------------------------------------------
\* checkClusters
\* ------------------------------------------------------------------------

\* Serve is listening; the handler of /api/clusters has just called
\* checkClusters and no signal has arrived.
Listening ==
  /\ srv = "listening"
  /\ stop = FALSE
  /\ response = <<>>

viewDashboard == "dashboard"
viewInstall == "install"
viewUpgrade == "upgrade"
viewNodePools == "nodepools"

\* NavigateMsg.Target; each target names the view it opens.
NavInstall == viewInstall
NavUpgrade == viewUpgrade
NavNodePools == viewNodePools

NavTargets == {NavInstall, NavUpgrade, NavNodePools}

\* NewModel and NewDashboard: the dashboard is the active view, it has no
\* rows and is loading.  No command is running.
NewModel ==
  /\ current = viewDashboard
  /\ clusters = <<>>
  /\ cursor = 0
  /\ loading = TRUE
  /\ checks = [nm \in Names |-> 0]
  /\ navs = [tg \in NavTargets |-> 0]
  /\ quit = FALSE

\* The TUI program has not been started.
TuiIdle == NewModel /\ loads = 0

InitFor(ctxs) ==
  /\ contexts = ctxs
  /\ mainPc = "start"
  /\ next = 1
  /\ wg = 0
  /\ sem = 0
  /\ results = <<>>
  /\ returned = <<>>
  /\ pc = [i \in 1..Len(ctxs) |-> "unborn"]
  /\ s = [i \in 1..Len(ctxs) |-> ClusterStatus]
  /\ fetch = [i \in 1..Len(ctxs) |-> "none"]
  /\ steps = [i \in 1..Len(ctxs) |-> <<>>]
  /\ resp = [i \in 1..Len(ctxs) |-> NoAnswers]
  /\ writes = [i \in 1..Len(ctxs) |-> <<>>]
  /\ fn = "none"
  /\ arg = <<>>
  /\ out = <<>>

\* Any list of at most MaxContexts names, duplicates included.  Renaming the
\* contexts changes nothing, so the first one is "a"; a context that is not
\* inspected plays no part and gets one fixed description.
Init ==
  /\ \E n \in 0..MaxContexts : \E ctxs \in [1..n -> Names] :
       /\ n > 0 => ctxs[1] = "a"
       /\ InitFor(ctxs)
       /\ serverURL \in [Names -> Providers]
       /\ unresponsive \in SUBSET Names
       /\ \A nm \in Names \ {ctxs[i] : i \in 1..n} :
            serverURL[nm] = ProviderUnknown /\ nm \notin unresponsive
  /\ Listening
  /\ TuiIdle

\* results := make([]ClusterStatus, len(contexts))
Alloc ==
  /\ mainPc = "start"
  /\ results' = [i \in Tasks |-> ClusterStatus]
  /\ mainPc' = IF N = 0 THEN "wait" ELSE "loop"
  /\ UNCHANGED <<callVars, serveVars, tuiVars, contexts, serverURL, unresponsive, next, wg, sem, returned, pc, s,
                 fetch, steps, resp, writes>>

\* Mutant: the loop starts the goroutine without wg.Add(1).
SpawnNoAdd ==
  /\ mainPc = "loop"
  /\ pc' = [pc EXCEPT ![next] = "acquire"]
  /\ next' = next + 1
  /\ mainPc' = IF next = N THEN "wait" ELSE "loop"
  /\ UNCHANGED <<callVars, serveVars, tuiVars, contexts, serverURL, unresponsive, wg, sem, results, returned, s,
                 fetch, steps, resp, writes>>

\* One iteration of the loop: wg.Add(1); go func(i, ctx) {...}(i, ctx)
Spawn ==
  /\ mainPc = "loop"
  /\ wg' = wg + 1
  /\ pc' = [pc EXCEPT ![next] = "acquire"]
  /\ next' = next + 1
  /\ mainPc' = IF next = N THEN "wait" ELSE "loop"
  /\ UNCHANGED <<callVars, serveVars, tuiVars, contexts, serverURL, unresponsive, sem, results, returned, s,
                 fetch, steps, resp, writes>>

\* Mutant: checkClusters returns without waiting for the goroutines.
WaitNoBarrier == TRUE

\* wg.Wait() blocks until the counter is zero.
WaitReady == wg = 0

\* wg.Wait(); return results
Wait ==
  /\ mainPc = "wait"
  /\ WaitReady
  /\ mainPc' = "returned"
  /\ returned' = <<results>>
  /\ UNCHANGED <<callVars, serveVars, tuiVars, contexts, serverURL, unresponsive, next, wg, sem, results, pc, s,
                 fetch, steps, resp, writes>>

\* Mutant: the goroutine reads the loop variable instead of its own
\* argument and sees the last context.
CtxOfCaptured(i) == contexts[N]

\* Mutant: the send on sem never blocks.
SemFreeAlways == TRUE

\* The ctx argument the goroutine of index i was started with.
CtxOf(i) == contexts[i]

\* sem <- struct{}{} blocks while the channel is full.
SemFree == sem < SemCap

\* sem <- struct{}{}, then inspectContext starts: s := ClusterStatus{Context: ctx}
Acquire(i) ==
  /\ pc[i] = "acquire"
  /\ SemFree
  /\ sem' = sem + 1
  /\ s' = [s EXCEPT ![i] = NewStatus(CtxOf(i))]
  /\ pc' = [pc EXCEPT ![i] = "provider"]
  /\ UNCHANGED <<callVars, serveVars, tuiVars, contexts, serverURL, unresponsive, mainPc, next, wg, results,
                 returned, fetch, steps, resp, writes>>

\* ------------------------------------------------------------------------
\* inspectContext, one call at a time
\* ------------------------------------------------------------------------

\* provider := kube.DetectProvider(ctx).  A server URL that names a cloud
\* needs no call; otherwise a node is listed, with no deadline.
ProviderStep(i) ==
  /\ pc[i] = "provider"
  /\ \E node \in (IF URLOf(i) # ProviderUnknown THEN {<<>>}
                  ELSE IF Responsive(i) THEN {<<a>> : a \in NodeAnswers}
                  ELSE {}) :
       /\ s' = [s EXCEPT ![i] = SetProvider(s[i], DetectProvider(URLOf(i), node))]
       /\ resp' = [resp EXCEPT ![i].node = node]
  /\ steps' = [steps EXCEPT ![i] = Append(steps[i], "provider")]
  /\ pc' = [pc EXCEPT ![i] = "version"]
  /\ UNCHANGED <<callVars, serveVars, tuiVars, contexts, serverURL, unresponsive, mainPc, next, wg, sem, results,
                 returned, fetch, writes>>

\* withTimeout: GetServerVersion answers before the deadline.
VersionAnswer(i) ==
  /\ pc[i] = "version"
  /\ Responsive(i)
  /\ \E a \in VersionAnswers :
       /\ s' = [s EXCEPT ![i] = IF a.ok THEN SetVersion(s[i], a.v) ELSE VersionFailed(s[i])]
       /\ resp' = [resp EXCEPT ![i].version = <<a>>]
       /\ pc' = [pc EXCEPT ![i] = AfterVersion(a.ok)]
  /\ fetch' = [fetch EXCEPT ![i] = "done"]
  /\ steps' = [steps EXCEPT ![i] = Append(steps[i], "version")]
  /\ UNCHANGED <<callVars, serveVars, tuiVars, contexts, serverURL, unresponsive, mainPc, next, wg, sem, results,
                 returned, writes>>

\* withTimeout: the deadline passes first.  The goroutine running
\* GetServerVersion is left behind.
VersionTimeout(i) ==
  /\ pc[i] = "version"
  /\ s' = [s EXCEPT ![i] = VersionTimedOut(s[i])]
  /\ resp' = [resp EXCEPT ![i].timedOut = TRUE]
  /\ pc' = [pc EXCEPT ![i] = AfterVersion(FALSE)]
  /\ fetch' = [fetch EXCEPT ![i] = "leaked"]
  /\ steps' = [steps EXCEPT ![i] = Append(steps[i], "version")]
  /\ UNCHANGED <<callVars, serveVars, tuiVars, contexts, serverURL, unresponsive, mainPc, next, wg, sem, results,
                 returned, writes>>

\* The goroutine left behind by a timeout gets its answer, puts it in the
\* buffered channel nobody reads, and ends.
LeakedFetchEnds(i) ==
  /\ fetch[i] = "leaked"
  /\ Responsive(i)
  /\ fetch' = [fetch EXCEPT ![i] = "finished"]
  /\ UNCHANGED <<callVars, serveVars, tuiVars, contexts, serverURL, unresponsive, mainPc, next, wg, sem, results,
                 returned, pc, s, steps, resp, writes>>

\* info, err := helm.DetectKarpenter(ctx)
KarpenterStep(i) ==
  /\ pc[i] = "helm"
  /\ \E h \in HelmAnswers :
       LET info == DetectKarpenter(h) IN
       /\ s' = [s EXCEPT ![i] = SetKarpenter(s[i], info)]
       /\ resp' = [resp EXCEPT ![i].helm = <<h>>]
       /\ pc' = [pc EXCEPT ![i] = AfterKarpenter(info, s[i].Provider)]
  /\ steps' = [steps EXCEPT ![i] = Append(steps[i], "controller")]
  /\ UNCHANGED <<callVars, serveVars, tuiVars, contexts, serverURL, unresponsive, mainPc, next, wg, sem, results,
                 returned, fetch, writes>>

\* The block under `if provider == kube.ProviderAWS`.
CompatStep(i) ==
  /\ pc[i] = "compat"
  /\ \E f \in ReleaseAnswers :
       /\ s' = [s EXCEPT ![i] = SetCompat(s[i], DetectKarpenter(resp[i].helm[1]), f)]
       /\ resp' = [resp EXCEPT ![i].releases = <<f>>]
  /\ steps' = [steps EXCEPT ![i] = Append(steps[i], "compat")]
  /\ pc' = [pc EXCEPT ![i] = "return"]
  /\ UNCHANGED <<callVars, serveVars, tuiVars, contexts, serverURL, unresponsive, mainPc, next, wg, sem, results,
                 returned, fetch, writes>>

\* Mutant: every goroutine assigns the first slot.
SlotFirst(i) == 1

\* The slot of results goroutine i assigns: results[i].
Slot(i) == i

\* results[i] = inspectContext(ctx): the call returns and the slot is assigned.
Return(i) ==
  /\ pc[i] = "return"
  /\ results' = [results EXCEPT ![Slot(i)] = s[i]]
  /\ writes' = [writes EXCEPT ![Slot(i)] = Append(writes[Slot(i)], i)]
  /\ pc' = [pc EXCEPT ![i] = "release"]
  /\ UNCHANGED <<callVars, serveVars, tuiVars, contexts, serverURL, unresponsive, mainPc, next, wg, sem, returned,
                 s, fetch, steps, resp>>

\* defer func() { <-sem }()
Release(i) ==
  /\ pc[i] = "release"
  /\ sem' = sem - 1
  /\ pc' = [pc EXCEPT ![i] = "done"]
  /\ UNCHANGED <<callVars, serveVars, tuiVars, contexts, serverURL, unresponsive, mainPc, next, wg, results,
                 returned, s, fetch, steps, resp, writes>>

\* defer wg.Done()
Done(i) ==
  /\ pc[i] = "done"
  /\ wg' = wg - 1
  /\ pc' = [pc EXCEPT ![i] = "exit"]
  /\ UNCHANGED <<callVars, serveVars, tuiVars, contexts, serverURL, unresponsive, mainPc, next, sem, results,
                 returned, s, fetch, steps, resp, writes>>

Next ==
  \/ Alloc
  \/ Spawn
  \/ Wait
  \/ \E i \in Tasks : Acquire(i)
  \/ \E i \in Tasks : ProviderStep(i)
  \/ \E i \in Tasks : VersionAnswer(i)
  \/ \E i \in Tasks : VersionTimeout(i)
  \/ \E i \in Tasks : LeakedFetchEnds(i)
  \/ \E i \in Tasks : KarpenterStep(i)
  \/ \E i \in Tasks : CompatStep(i)
  \/ \E i \in Tasks : Return(i)
  \/ \E i \in Tasks : Release(i)
  \/ \E i \in Tasks : Done(i)

Spec == Init /\ [][Next]_vars

\* The Go scheduler runs some goroutine that can take a step, and a call
\* that is answered returns: as long as a step is possible, one is taken.
FairSpec == Spec /\ WF_vars(Next)

\* ------------------------------------------------------------------------
\* Serve: one request of /api/clusters and the shutdown signal
\* ------------------------------------------------------------------------

\* The process lives until Serve returns to main, which returns its error.
Alive == srv # "returned"

\* One context, so that the request and the shutdown are explored in full.
ServeInit ==
  /\ InitFor(<<"a">>)
  /\ serverURL \in [Names -> Providers]
  /\ serverURL["b"] = ProviderUnknown
  /\ unresponsive \in SUBSET {"a"}
  /\ Listening
  /\ TuiIdle

\* A goroutine of the request's checkClusters takes a step.
Inspect == Alive /\ Next

\* The handler: results := checkClusters(contexts), then Encode(results).
\* A connection that is open when Shutdown is called may still be answered.
Respond ==
  /\ Alive
  /\ mainPc = "returned"
  /\ response = <<>>
  /\ response' = returned
  /\ UNCHANGED <<serverVars, callVars, tuiVars, srv, stop>>

\* SIGINT or SIGTERM: signal.Notify puts it into the channel stop, which has
\* room for one.
Signal ==
  /\ Alive
  /\ ~stop
  /\ stop' = TRUE
  /\ UNCHANGED <<serverVars, callVars, tuiVars, srv, response>>

\* The goroutine of Serve: <-stop, then srv.Shutdown(ctx), which closes the
\* listener at once.
Shutdown ==
  /\ srv = "listening"
  /\ stop
  /\ stop' = FALSE
  /\ srv' = "closing"
  /\ UNCHANGED <<serverVars, callVars, tuiVars, response>>

\* Mutant: ListenAndServe returns only when the handler has answered.
ServeReturnAwaitsHandler == srv = "closing" /\ response # <<>>

\* ListenAndServe returns ErrServerClosed as soon as Shutdown has been
\* called.
ServeReturnReady == srv = "closing"

\* Serve returns nil and main returns: the process ends, and with it every
\* goroutine.
ServeReturn ==
  /\ ServeReturnReady
  /\ srv' = "returned"
  /\ UNCHANGED <<serverVars, callVars, tuiVars, stop, response>>

ServeNext ==
  \/ Inspect
  \/ Respond
  \/ Signal
  \/ Shutdown
  \/ ServeReturn

ServeSpec == ServeInit /\ [][ServeNext]_vars

\* The goroutine waiting on stop and the main goroutine are scheduled.
\* Nothing is assumed of the inspections: a cluster may never answer.
ServeFairSpec == ServeSpec /\ WF_vars(Shutdown) /\ WF_vars(ServeReturn)

\* ------------------------------------------------------------------------
\* The pool: more contexts than the semaphore has room for, every call of
\* inspectContext taken as one step
\* ------------------------------------------------------------------------

PoolSize == SemCap + PoolExtra

\* The steps inspectContext runs for the answers r.
StepsFor(url, r) ==
  <<"provider", "version">>
    \o (IF r.timedOut \/ ~r.version[1].ok THEN <<>>
        ELSE <<"controller">>
               \o (IF AfterKarpenter(DetectKarpenter(r.helm[1]), DetectProvider(url, r.node)) = "compat"
                   THEN <<"compat">> ELSE <<>>))

\* Cluster "a": EKS by its URL, Kubernetes 1.31.0, Karpenter v1.5.0 installed,
\* the release index answers with the one release 1.5.0.  Cluster "b": no
\* cloud in its URL, the node call and the version call fail at once.
PoolAnswers ==
  [a |-> [node |-> <<>>,
          version |-> <<[ok |-> TRUE, v |-> VStr(<<1, 31, 0>>)]>>,
          timedOut |-> FALSE,
          helm |-> <<[ok |-> TRUE, found |-> TRUE, appVersion |-> [VStr(<<1, 5, 0>>) EXCEPT !.v = TRUE]]>>,
          releases |-> <<[ok |-> TRUE, tags |-> <<VStr(<<1, 5, 0>>)>>]>>],
   b |-> [node |-> <<[ok |-> FALSE, provider |-> ProviderUnknown]>>,
          version |-> <<[ok |-> FALSE, v |-> NoStr]>>,
          timedOut |-> FALSE,
          helm |-> <<>>,
          releases |-> <<>>]]

PoolURL == [nm \in Names |-> IF nm = "a" THEN ProviderAWS ELSE ProviderUnknown]

\* What inspectContext returns for each of the two clusters.
PoolStatus == [nm \in Names |-> inspectContext(nm, PoolURL[nm], PoolAnswers[nm])]

PoolSteps == [nm \in Names |-> StepsFor(PoolURL[nm], PoolAnswers[nm])]

PoolInit ==
  /\ InitFor([i \in 1..PoolSize |-> IF i % 2 = 1 THEN "a" ELSE "b"])
  /\ serverURL = PoolURL
  /\ unresponsive = {}
  /\ Listening
  /\ TuiIdle

\* The rest of the goroutine once it holds a token, as one step:
\* results[i] = inspectContext(ctx) with every request answered in time, then
\* the deferred <-sem and wg.Done().  Until then the call is in flight.
InspectCall(i) ==
  /\ pc[i] = "provider"
  /\ pc' = [pc EXCEPT ![i] = "exit"]
  /\ sem' = sem - 1
  /\ wg' = wg - 1
  /\ fetch' = [fetch EXCEPT ![i] = "done"]
  /\ writes' = [writes EXCEPT ![Slot(i)] = Append(writes[Slot(i)], i)]
  /\ resp' = [resp EXCEPT ![i] = PoolAnswers[contexts[i]]]
  /\ steps' = [steps EXCEPT ![i] = PoolSteps[contexts[i]]]
  /\ LET status == PoolStatus[contexts[i]] IN
       /\ s' = [s EXCEPT ![i] = status]
       /\ results' = [results EXCEPT ![Slot(i)] = status]
  /\ UNCHANGED <<callVars, serveVars, tuiVars, contexts, serverURL, unresponsive, mainPc, next, returned>>

PoolNext ==
  \/ Alloc
  \/ Spawn
  \/ Wait
  \/ \E i \in Tasks : Acquire(i)
  \/ \E i \in Tasks : InspectCall(i)

PoolSpec == PoolInit /\ [][PoolNext]_vars

PoolFairSpec == PoolSpec /\ WF_vars(PoolNext)

\* ------------------------------------------------------------------------
\* The terminal UI: the root model, the dashboard and their commands
\* ------------------------------------------------------------------------

MaxPending == 2

MaxNavs == 1

\* The zero ClusterEntry.
ClusterEntry ==
  [Name |-> "", Context |-> "", Region |-> "", Provider |-> "", K8sVersion |-> NoStr,
   Installed |-> FALSE, Checking |-> FALSE, ChartVersion |-> NoStr,
   LatestVersion |-> NoStr, UpgradeNeeded |-> FALSE, Incompatible |-> FALSE,
   Error |-> ""]

\* The contexts of the kubeconfig in the order the map yields them: any
\* list of distinct names.  The empty list is also what a kubeconfig that
\* cannot be loaded gives.
Kubeconfigs ==
  {<<>>} \cup {<<nm>> : nm \in Names} \cup {x \in Names \X Names : x[1] # x[2]}

\* loadClusters with no preferred context: one entry per context, Checking.
loadClusters(kubeconfig) ==
  [i \in 1..Len(kubeconfig) |->
     [ClusterEntry EXCEPT !.Name = kubeconfig[i], !.Context = kubeconfig[i], !.Checking = TRUE]]

parseVer(v) == TrimPrefixV(v)

\* checkCluster as a function of the entry, the kubeconfig's server URL
\* class and the answers received.
checkCluster(c, url, r) ==
  LET c1   == [c EXCEPT !.Checking = FALSE, !.Provider = DetectProvider(url, r.node)]
      info == DetectKarpenter(r.helm[1])
  IN
  IF info.err THEN [c1 EXCEPT !.Error = "helm"]
  ELSE
  LET c2 == [c1 EXCEPT !.Installed = info.Installed,
                       !.ChartVersion = IF info.Installed THEN info.Version ELSE NoStr]
  IN
  IF ~r.version[1].ok THEN [c2 EXCEPT !.Error = "k8s version"]
  ELSE
  LET k8sVer == r.version[1].v
      c3 == [c2 EXCEPT !.K8sVersion = k8sVer]
      c4 == IF c3.Installed /\ c3.ChartVersion # NoStr /\ c3.Provider = ProviderAWS
            THEN LET bad == ~IsCompatible(c3.ChartVersion, k8sVer) IN
                 [c3 EXCEPT !.Incompatible = bad, !.UpgradeNeeded = bad]
            ELSE c3
  IN
  IF c4.Provider # ProviderAWS THEN c4
  ELSE
  LET lc == LatestCompatible(k8sVer, r.releases[1]) IN
  IF lc.err \/ lc.latest = NoStr THEN c4
  ELSE
  LET c5 == [c4 EXCEPT !.LatestVersion = lc.latest] IN
  IF ~c5.UpgradeNeeded /\ c5.Installed /\ c5.ChartVersion # NoStr
     /\ NewVersionOk(parseVer(c5.ChartVersion)) /\ NewVersionOk(parseVer(lc.latest))
     /\ GreaterThan(NewVersion(parseVer(lc.latest)), NewVersion(parseVer(c5.ChartVersion)))
  THEN [c5 EXCEPT !.UpgradeNeeded = TRUE]
  ELSE c5

\* What the two clusters can answer one check.  "a" is the EKS cluster of
\* the pool, with Karpenter v1.5.0 or without Karpenter; "b" has no cloud in
\* its URL, runs Karpenter 1.3.0 and fails the node and the version call.
TuiAnswers ==
  [a |-> {PoolAnswers.a,
          [PoolAnswers.a EXCEPT !.helm = <<[ok |-> TRUE, found |-> FALSE, appVersion |-> NoStr]>>]},
   b |-> {[PoolAnswers.b EXCEPT !.helm = <<[ok |-> TRUE, found |-> TRUE, appVersion |-> VStr(<<1, 3, 0>>)]>>]}]

\* The program has been started: Model.Init has issued loadClusters.
TuiInit ==
  /\ InitFor(<<>>)
  /\ serverURL = PoolURL
  /\ unresponsive = {}
  /\ Listening
  /\ NewModel
  /\ loads = 1

\* DashboardModel.selected: <<>> for nil.
selected ==
  IF Len(clusters) = 0 \/ cursor >= Len(clusters) THEN <<>> ELSE <<clusters[cursor + 1]>>

Running == ~quit

OnDashboard == current = viewDashboard

\* "q" or "ctrl+c": tea.Quit ends the program.
KeyQuit ==
  /\ Running
  /\ quit' = TRUE
  /\ UNCHANGED <<serverVars, callVars, serveVars, current, clusters, cursor, loading, loads, checks, navs>>

\* "esc": back to the dashboard from any other view; the dashboard itself
\* has no binding for it.
KeyEsc ==
  /\ Running
  /\ current' = viewDashboard
  /\ UNCHANGED <<serverVars, callVars, serveVars, clusters, cursor, loading, loads, checks, navs, quit>>

\* "up" or "k".  Keys other than q and esc reach the dashboard only while
\* it is the active view.
KeyUp ==
  /\ Running
  /\ cursor' = IF OnDashboard /\ cursor > 0 THEN cursor - 1 ELSE cursor
  /\ UNCHANGED <<serverVars, callVars, serveVars, current, clusters, loading, loads, checks, navs, quit>>

\* "down" or "j".
KeyDown ==
  /\ Running
  /\ cursor' = IF OnDashboard /\ cursor < Len(clusters) - 1 THEN cursor + 1 ELSE cursor
  /\ UNCHANGED <<serverVars, callVars, serveVars, current, clusters, loading, loads, checks, navs, quit>>

\* Whether navInstall, navUpgrade and navNodePools return a command.
navReady(target) ==
  /\ selected # <<>>
  /\ target # NavInstall => selected[1].Installed

PendingNavs == navs[NavInstall] + navs[NavUpgrade] + navs[NavNodePools]

\* "i", "u" or "n": the command that will deliver the NavigateMsg.
KeyNav(target) ==
  /\ Running
  /\ PendingNavs < MaxNavs
  /\ navs' = IF OnDashboard /\ navReady(target)
             THEN [navs EXCEPT ![target] = @ + 1] ELSE navs
  /\ UNCHANGED <<serverVars, callVars, serveVars, current, clusters, cursor, loading, loads, checks, quit>>

KeyInstall == KeyNav(NavInstall)

KeyUpgrade == KeyNav(NavUpgrade)

KeyNodePools == KeyNav(NavNodePools)

\* "r": the dashboard shows that it is loading and loads again.
KeyRefresh ==
  /\ Running
  /\ \A nm \in Names : loads + checks[nm] < MaxPending
  /\ loading' = IF OnDashboard THEN TRUE ELSE loading
  /\ loads' = IF OnDashboard THEN loads + 1 ELSE loads
  /\ UNCHANGED <<serverVars, callVars, serveVars, current, clusters, cursor, checks, navs, quit>>

\* The contexts of the entries of a list.
ContextsOf(list) == {list[i].Context : i \in 1..Len(list)}

\* clustersLoadedMsg: the list replaces the rows and one checkCluster is
\* started per row.  The message is dropped in any other view.
LoadDone ==
  /\ Running
  /\ loads > 0
  /\ loads' = loads - 1
  /\ \E kubeconfig \in Kubeconfigs :
       LET msg == loadClusters(kubeconfig) IN
       IF OnDashboard
       THEN /\ loading' = FALSE
            /\ clusters' = msg
            /\ checks' = [nm \in Names |-> IF nm \in ContextsOf(msg) THEN checks[nm] + 1 ELSE checks[nm]]
       ELSE UNCHANGED <<loading, clusters, checks>>
  /\ UNCHANGED <<serverVars, callVars, serveVars, current, cursor, navs, quit>>

\* The rows with the first one of msg's context replaced by msg.
RECURSIVE ReplaceFirst(_, _)
ReplaceFirst(list, msg) ==
  IF list = <<>> THEN <<>>
  ELSE IF Head(list).Context = msg.Context THEN <<msg>> \o Tail(list)
  ELSE <<Head(list)>> \o ReplaceFirst(Tail(list), msg)

\* clusterCheckedMsg: the result of checkCluster for the entry loadClusters
\* made for ctx.  The message is dropped in any other view.
CheckDone(ctx) ==
  /\ Running
  /\ checks[ctx] > 0
  /\ checks' = [checks EXCEPT ![ctx] = @ - 1]
  /\ \E r \in TuiAnswers[ctx] :
       LET msg == checkCluster(loadClusters(<<ctx>>)[1], serverURL[ctx], r) IN
       clusters' = IF OnDashboard THEN ReplaceFirst(clusters, msg) ELSE clusters
  /\ UNCHANGED <<serverVars, callVars, serveVars, current, cursor, loading, loads, navs, quit>>

\* NavigateMsg: the root model opens the view, whichever view is active.
NavDone(target) ==
  /\ Running
  /\ navs[target] > 0
  /\ navs' = [navs EXCEPT ![target] = @ - 1]
  /\ current' = target
  /\ UNCHANGED <<serverVars, callVars, serveVars, clusters, cursor, loading, loads, checks, quit>>

TuiNext ==
  \/ KeyQuit
  \/ KeyEsc
  \/ KeyUp
  \/ KeyDown
  \/ KeyInstall
  \/ KeyUpgrade
  \/ KeyNodePools
  \/ KeyRefresh
  \/ LoadDone
  \/ \E ctx \in Names : CheckDone(ctx)
  \/ \E target \in NavTargets : NavDone(target)

TuiSpec == TuiInit /\ [][TuiNext]_vars

\* ------------------------------------------------------------------------
\* Calls of internal/compat
\* ------------------------------------------------------------------------

\* checkClusters with nothing to inspect and not yet called.
Idle ==
  /\ InitFor(<<>>)
  /\ serverURL = [nm \in Names |-> ProviderUnknown]
  /\ unresponsive = {}
  /\ Listening
  /\ TuiIdle

\* Every spelling of the given component lists: with and without a leading
\* "v", a "-rc1" suffix and a "+build" suffix.
Spellings(numsSet) ==
  [v : BOOLEAN, nums : numsSet, pre : {"", "rc1"}, meta : {"", "build"}]

\* Karpenter versions at and around the bounds of every rule, short forms
\* ("1.3", "2"), a fourth component, the empty string and "garbage".
ControllerNums ==
  { <<0, 32, 9>>, <<0, 33, 0>>, <<0, 34, 9>>, <<0, 35, 0>>, <<0, 36, 5>>,
    <<0, 37, 0>>, <<0, 99, 0>>, <<1, 0, 0>>, <<1, 1, 9>>, <<1, 2, 0>>,
    <<1, 3, 0>>, <<1, 3, 9>>, <<1, 4, 0>>, <<1, 5, 0>>, <<1, 99, 99>>,
    <<2, 0, 0>>, <<1, 3>>, <<1>>, <<2>>, <<1, 3, 0, 1>>, <<>>, <<-1>> }

ControllerStrings == Spellings(ControllerNums)

\* Kubernetes versions at and around the bounds of every rule, short forms,
\* a fourth component, the empty string and "garbage".
ClusterNums ==
  { <<1, 25, 9>>, <<1, 26, 0>>, <<1, 27, 0>>, <<1, 27, 5>>, <<1, 28, 0>>,
    <<1, 28, 99>>, <<1, 28, 100>>, <<1, 29, 0>>, <<1, 29, 99>>, <<1, 30, 0>>,
    <<1, 30, 99>>, <<1, 31, 0>>, <<1, 31, 99>>, <<1, 32, 0>>, <<1, 32, 99>>,
    <<1, 33, 0>>, <<1, 33, 99>>, <<1, 34, 0>>, <<1, 29>>, <<1>>,
    <<1, 30, 0, 4>>, <<>>, <<-1>> }

ClusterStrings == Spellings(ClusterNums)

\* Longest candidate list handed to FilterCompatible.
MaxCandidates == 3

\* Candidates: releases of several rules, one version in two spellings
\* ("1.3.0", "1.3"), a release candidate, a version no rule knows and a
\* string that is no version.
Candidates ==
  { VStr(<<1, 3, 0>>), VStr(<<1, 3>>), VStr(<<1, 5, 0>>), VStr(<<0, 37, 0>>),
    VStr(<<0, 33, 0>>), [VStr(<<1, 3, 0>>) EXCEPT !.pre = "rc1"],
    VStr(<<2, 0, 0>>), VStr(<<-1>>) }

CandidateLists == UNION {[1..n -> Candidates] : n \in 0..MaxCandidates}

\* Cluster versions the list functions are called with.
ListClusters ==
  { VStr(<<1, 31, 0>>), VStr(<<1, 27, 5>>), VStr(<<1, 34, 0>>), VStr(<<-1>>) }

\* FetchAvailableVersions: an error, or tags that parse as versions.
FetchAnswers ==
  {[ok |-> FALSE, tags |-> <<>>]}
    \cup {[ok |-> TRUE, tags |-> l] : l \in {c \in CandidateLists :
                                       \A i \in 1..Len(c) : NewVersionOk(c[i])}}

CallIsCompatible ==
  /\ fn = "none"
  /\ \E karpVersion \in ControllerStrings, k8sVersion \in ClusterStrings :
       /\ arg' = [karpVersion |-> karpVersion, k8sVersion |-> k8sVersion]
       /\ out' = IsCompatible(karpVersion, k8sVersion)
  /\ fn' = "IsCompatible"
  /\ UNCHANGED <<serverVars, serveVars, tuiVars>>

\* out.available is the caller's slice after the call: FilterCompatible
\* appends to a slice of its own and sorts that one.
CallFilterCompatible ==
  /\ fn = "none"
  /\ \E k8sVersion \in ListClusters, available \in CandidateLists :
       /\ arg' = [k8sVersion |-> k8sVersion, available |-> available]
       /\ out' = [list |-> FilterCompatible(k8sVersion, available),
                  available |-> available]
  /\ fn' = "FilterCompatible"
  /\ UNCHANGED <<serverVars, serveVars, tuiVars>>

CallLatestCompatible ==
  /\ fn = "none"
  /\ \E k8sVersion \in ListClusters, fetched \in FetchAnswers :
       /\ arg' = [k8sVersion |-> k8sVersion, fetched |-> fetched]
       /\ out' = LatestCompatible(k8sVersion, fetched)
  /\ fn' = "LatestCompatible"
  /\ UNCHANGED <<serverVars, serveVars, tuiVars>>

CallMinCompatibleKarpenter ==
  /\ fn = "none"
  /\ \E k8sVersion \in ClusterStrings :
       /\ arg' = [k8sVersion |-> k8sVersion]
       /\ out' = MinCompatibleKarpenter(k8sVersion)
  /\ fn' = "MinCompatibleKarpenter"
  /\ UNCHANGED <<serverVars, serveVars, tuiVars>>

CompatNext ==
  \/ CallIsCompatible
  \/ CallFilterCompatible
  \/ CallLatestCompatible
  \/ CallMinCompatibleKarpenter

CompatSpec == Idle /\ [][CompatNext]_vars

\* ------------------------------------------------------------------------
\* internal/kube/workload.go
\* ------------------------------------------------------------------------

\* A float64 that is a quotient of two integers, kept as the quotient so
\* that comparisons with whole numbers are exact.  The zero value is 0/1.
Ratio(num, den) == [num |-> num, den |-> den]

RatioZero == Ratio(0, 1)

\* r > k and r < k for a whole number k (den is positive).
RatioGT(r, k) == r.num > k * r.den

RatioLT(r, k) == r.num < k * r.den

\* The zero value of WorkloadProfile.
WorkloadProfile ==
  [TotalPods |-> 0, TotalCPUm |-> 0, TotalMemMiB |-> 0, MaxPodCPUm |-> 0,
   MaxPodMemMiB |-> 0, HasGPU |-> FALSE, HasBatchJobs |-> FALSE,
   MemPerCPUGiB |-> RatioZero, Namespaces |-> 0, NoRequests |-> FALSE]

\* AnalyzeWorkloads, the derived ratios:
\*   MemPerCPUGiB = (TotalMemMiB / 1024.0) / (TotalCPUm / 1000.0) if TotalCPUm > 0
\*   NoRequests   = TotalCPUm == 0 && TotalMemMiB == 0
DerivedRatios(p) ==
  [p EXCEPT
     !.MemPerCPUGiB = IF p.TotalCPUm > 0
                      THEN Ratio(p.TotalMemMiB * 1000, p.TotalCPUm * 1024)
                      ELSE RatioZero,
     !.NoRequests = (p.TotalCPUm = 0 /\ p.TotalMemMiB = 0)]

\* AnalyzeWorkloads for a cluster running `pods` pods that each request
\* podCPUm millicores and podMemMiB MiB, in one namespace.
AnalyzeWorkloads(pods, podCPUm, podMemMiB, gpu, batch) ==
  DerivedRatios(
    [WorkloadProfile EXCEPT
       !.TotalPods = pods,
       !.TotalCPUm = pods * podCPUm,
       !.TotalMemMiB = pods * podMemMiB,
       !.MaxPodCPUm = IF pods > 0 THEN podCPUm ELSE 0,
       !.MaxPodMemMiB = IF pods > 0 THEN podMemMiB ELSE 0,
       !.HasGPU = (pods > 0 /\ gpu),
       !.HasBatchJobs = batch,
       !.Namespaces = IF pods > 0 THEN 1 ELSE 0])

WorkloadGeneral == "general"
WorkloadMemory == "memory"
WorkloadCPU == "cpu"
WorkloadGPU == "gpu"
WorkloadBatch == "batch"
WorkloadUnknown == "unknown"

ClassifyWorkload(p) ==
  IF p.HasGPU THEN WorkloadGPU
  ELSE IF p.NoRequests \/ p.TotalPods = 0 THEN WorkloadUnknown
  ELSE IF RatioGT(p.MemPerCPUGiB, 4) THEN WorkloadMemory
  ELSE IF RatioLT(p.MemPerCPUGiB, 2) /\ RatioGT(p.MemPerCPUGiB, 0) THEN WorkloadCPU
  ELSE IF p.HasBatchJobs THEN WorkloadBatch
  ELSE WorkloadGeneral

\* ------------------------------------------------------------------------
\* internal/nodes/selector.go
\* ------------------------------------------------------------------------

ModeCostOptimized == "cost"
ModeBalanced == "balanced"
ModeHighPerformance == "performance"

\* The zero value of Recommendation; a nil slice is the empty sequence.
Recommendation ==
  [Mode |-> "", WorkloadType |-> "", Provider |-> "",
   InstanceFamilies |-> <<>>, CapacityTypes |-> <<>>, Architectures |-> <<>>,
   CPUSizes |-> <<>>, MinNodeCPU |-> 0, MinNodeMiB |-> 0, Reasoning |-> <<>>]

\* int(x) for x >= 0 given as the quotient num / den.
Trunc(num, den) == num \div den

\* minCPU: needed = int((maxPodCPUm / 1000.0) * 1.2), then the bucket.
minCPU(maxPodCPUm) ==
  IF maxPodCPUm = 0 THEN 2
  ELSE LET needed == Trunc(maxPodCPUm * 12, 10000) IN
       IF needed <= 1 THEN 2
       ELSE IF needed <= 2 THEN 2
       ELSE IF needed <= 4 THEN 4
       ELSE IF needed <= 8 THEN 8
       ELSE 16

\* minMemMiB: needed = int(maxPodMemMiB * 1.25), then the bucket.
minMemMiB(maxPodMemMiB) ==
  IF maxPodMemMiB = 0 THEN 2048
  ELSE LET needed == Trunc(maxPodMemMiB * 125, 100) IN
       IF needed <= 1024 THEN 2048
       ELSE IF needed <= 2048 THEN 2048
       ELSE IF needed <= 4096 THEN 4096
       ELSE IF needed <= 8192 THEN 8192
       ELSE IF needed <= 16384 THEN 16384
       ELSE 32768

\* fmt.Sscanf(s, "%d", &n) on the entries of `all`.
Sscanf(str) ==
  CASE str = "2" -> 2 [] str = "4" -> 4 [] str = "8" -> 8 [] str = "16" -> 16
    [] str = "32" -> 32 [] str = "48" -> 48 [] str = "64" -> 64 [] OTHER -> 0

cpuSizes(minCPUArg) ==
  LET all == <<"2", "4", "8", "16", "32", "48", "64">>
      sel == SelectSeq(all, LAMBDA x : Sscanf(x) >= minCPUArg)
  IN IF Len(sel) = 0 THEN <<"16", "32", "64">> ELSE sel

addReasons(existing, more) == existing \o more

\* One branch of a build function: what it assigns to the recommendation.
Select(r, families, capacity, archs, reasons) ==
  [r EXCEPT !.InstanceFamilies = families,
            !.CapacityTypes = capacity,
            !.Architectures = archs,
            !.Reasoning = addReasons(r.Reasoning, reasons)]

SpotAndOnDemand == <<"spot", "on-demand">>

OnDemand == <<"on-demand">>

ArmAndAmd == <<"arm64", "amd64">>

Amd == <<"amd64">>

buildAWS(r, p, wtype, mode) ==
  IF mode = ModeCostOptimized THEN
    CASE wtype = WorkloadGPU ->
           Select(r, <<"g5g", "g4dn", "g5">>, SpotAndOnDemand, ArmAndAmd,
             <<"GPU workloads detected - using spot-eligible GPU families (g5g Graviton first)",
               "Spot GPU saves ~70% vs on-demand; ensure GPU pods tolerate interruption">>)
      [] wtype = WorkloadMemory ->
           Select(r, <<"r7g", "r6g", "r7i", "r6i">>, SpotAndOnDemand, ArmAndAmd,
             <<"Memory-intensive workloads (>4 GiB/core) - memory-optimised families (r-series)",
               "Graviton r7g/r6g selected first for best $/GiB ratio on Spot">>)
      [] wtype = WorkloadCPU ->
           Select(r, <<"c7g", "c6g", "c7i", "c6i", "c6a">>, SpotAndOnDemand, ArmAndAmd,
             <<"Compute-intensive workloads (<2 GiB/core) - compute-optimised families (c-series)",
               "Graviton c7g/c6g offer best compute $/vCPU on Spot">>)
      [] wtype = WorkloadBatch ->
           Select(r, <<"m7g", "m6g", "c7g", "c6g", "m7i", "m6i">>, SpotAndOnDemand, ArmAndAmd,
             <<"Batch/job workloads - mixed general+compute families with Spot for lowest cost",
               "Karpenter's consolidation will terminate idle nodes between job runs">>)
      [] OTHER ->
           Select(r, <<"m7g", "m6g", "m7i", "m6i", "m6a">>, SpotAndOnDemand, ArmAndAmd,
             <<"General-purpose workloads - latest Graviton + Intel m-series",
               "arm64 (Graviton) included for ~20% better price/performance on Spot">>)
  ELSE IF mode = ModeHighPerformance THEN
    CASE wtype = WorkloadGPU ->
           Select(r, <<"p4d", "p3", "g5", "g4dn">>, OnDemand, Amd,
             <<"GPU workloads detected - high-performance NVIDIA GPU families (p4d/p3/g5)",
               "On-demand only to guarantee availability and avoid interruption">>)
      [] wtype = WorkloadMemory ->
           Select(r, <<"r7i", "r6i", "r5n", "x2idn">>, OnDemand, Amd,
             <<"Memory-intensive workloads - Intel memory-optimised (r7i/r6i/x2idn)",
               "On-demand ensures consistent availability for stateful/memory services">>)
      [] wtype = WorkloadCPU ->
           Select(r, IF p.HasBatchJobs
                     THEN <<"c7i", "c6i", "c5n", "hpc7g", "c6a">>
                     ELSE <<"c7i", "c6i", "c5n", "hpc7g">>, OnDemand, Amd,
             <<"Compute-intensive - latest Intel c7i/c6i compute-optimised",
               "c5n/hpc7g for network/HPC workloads if applicable">>)
      [] OTHER ->
           Select(r, <<"m7i", "c7i", "m6i", "c6i">>, OnDemand, Amd,
             <<"High-performance general: latest-gen Intel m7i/c7i on-demand",
               "No Spot to eliminate interruptions for latency-sensitive services">>)
  ELSE
    CASE wtype = WorkloadGPU ->
           Select(r, <<"g5", "g5g", "g4dn", "p3">>, SpotAndOnDemand, ArmAndAmd,
             <<"GPU workloads - balanced mix of GPU families, spot+on-demand">>)
      [] wtype = WorkloadMemory ->
           Select(r, <<"r7g", "r7i", "r6g", "r6i", "m7g", "m7i">>, SpotAndOnDemand, ArmAndAmd,
             <<"Memory workloads - balanced mix of memory-optimised families">>)
      [] wtype = WorkloadCPU ->
           Select(r, <<"c7g", "c7i", "m7g", "m7i", "c6g", "c6i">>, SpotAndOnDemand, ArmAndAmd,
             <<"Compute workloads - balanced compute + general families">>)
      [] OTHER ->
           Select(r, <<"m7g", "m7i", "c7g", "c7i", "m6g", "m6i">>, SpotAndOnDemand, ArmAndAmd,
             <<"Balanced: mixed Graviton + Intel latest-gen, Spot + on-demand">>)

buildAzure(r, p, wtype, mode) ==
  IF mode = ModeCostOptimized THEN
    CASE wtype = WorkloadGPU ->
           Select(r, <<"NC", "ND">>, SpotAndOnDemand, Amd,
             <<"GPU workloads - NC/ND series Azure GPU VMs with Spot pricing">>)
      [] wtype = WorkloadMemory ->
           Select(r, <<"E", "M">>, SpotAndOnDemand, Amd,
             <<"Memory workloads - E-series (memory-optimised) on Spot">>)
      [] wtype = WorkloadCPU ->
           Select(r, <<"F", "FX">>, SpotAndOnDemand, Amd,
             <<"Compute workloads - F-series (compute-optimised) on Spot">>)
      [] OTHER ->
           Select(r, <<"D", "Das", "Dads">>, SpotAndOnDemand, Amd,
             <<"General: Dadsv5 (AMD) / Dasv5 - best $/vCPU on Azure Spot">>)
  ELSE IF mode = ModeHighPerformance THEN
    CASE wtype = WorkloadGPU ->
           Select(r, <<"NC", "NCv3", "ND", "NDv2">>, OnDemand, Amd,
             <<"GPU: high-end NC/ND series (V100/A100) on-demand">>)
      [] wtype = WorkloadMemory ->
           Select(r, <<"E", "M", "MediumMemory">>, OnDemand, Amd,
             <<"Memory: E-series + M-series (up to 4 TiB RAM) on-demand">>)
      [] wtype = WorkloadCPU ->
           Select(r, <<"Fx", "FX", "Fs">>, OnDemand, Amd,
             <<"Compute: Fx-series (latest Intel Sapphire Rapids) on-demand">>)
      [] OTHER ->
           Select(r, <<"D", "Ds", "Dls">>, OnDemand, Amd,
             <<"High-perf general: Dv5-series (Intel) on-demand">>)
  ELSE
    Select(r, <<"D", "Das", "E", "F">>, SpotAndOnDemand, Amd,
      <<"Balanced: D/E/F Azure families, Spot + on-demand">>)

buildGCP(r, p, wtype, mode) ==
  IF mode = ModeCostOptimized THEN
    CASE wtype = WorkloadGPU ->
           Select(r, <<"a2", "g2">>, SpotAndOnDemand, Amd,
             <<"GPU: a2 (A100) / g2 (L4) with Spot pricing">>)
      [] wtype = WorkloadMemory ->
           Select(r, <<"n2d", "m3">>, SpotAndOnDemand, Amd,
             <<"Memory: n2d (AMD, cheapest) + m3 for large memory needs">>)
      [] wtype = WorkloadCPU ->
           Select(r, <<"c2d", "n2d">>, SpotAndOnDemand, Amd,
             <<"Compute: c2d (AMD EPYC) - best $/vCPU on GCP Spot">>)
      [] OTHER ->
           Select(r, <<"n2d", "n2", "t2d">>, SpotAndOnDemand, Amd,
             <<"General: n2d (AMD) + t2d (Arm) - lowest cost on Spot">>)
  ELSE IF mode = ModeHighPerformance THEN
    CASE wtype = WorkloadGPU ->
           Select(r, <<"a3", "a2">>, OnDemand, Amd,
             <<"GPU: a3 (H100) / a2 (A100) on-demand - highest throughput">>)
      [] wtype = WorkloadMemory ->
           Select(r, <<"m3", "m2">>, OnDemand, Amd,
             <<"Memory: m3 (Intel Sapphire Rapids) up to 30 TiB RAM">>)
      [] wtype = WorkloadCPU ->
           Select(r, <<"c3", "c2">>, OnDemand, Amd,
             <<"Compute: c3 (Intel Sapphire Rapids) on-demand">>)
      [] OTHER ->
           Select(r, <<"n2", "c3", "n4">>, OnDemand, Amd,
             <<"High-perf general: n2/c3 Intel on-demand">>)
  ELSE
    Select(r, <<"n2", "n2d", "c2d">>, SpotAndOnDemand, Amd,
      <<"Balanced: n2 (Intel) + n2d (AMD) + c2d, Spot + on-demand">>)

\* Mutant: the switch on the provider has no case for GCP.
BuildWithoutGCP(profile, mode, provider) ==
  LET wtype == ClassifyWorkload(profile)
      r0 == [Recommendation EXCEPT !.Mode = mode, !.WorkloadType = wtype,
                                    !.Provider = provider]
      r1 == [r0 EXCEPT !.MinNodeCPU = minCPU(profile.MaxPodCPUm),
                       !.MinNodeMiB = minMemMiB(profile.MaxPodMemMiB)]
      r  == [r1 EXCEPT !.CPUSizes = cpuSizes(r1.MinNodeCPU)]
  IN CASE provider = ProviderAWS -> buildAWS(r, profile, wtype, mode)
       [] provider = ProviderAzure -> buildAzure(r, profile, wtype, mode)
       [] OTHER -> [r EXCEPT !.Reasoning =
                      Append(r.Reasoning, "Provider unknown - showing generic guidance only")]

Build(profile, mode, provider) ==
  LET wtype == ClassifyWorkload(profile)
      r0 == [Recommendation EXCEPT !.Mode = mode, !.WorkloadType = wtype,
                                    !.Provider = provider]
      r1 == [r0 EXCEPT !.MinNodeCPU = minCPU(profile.MaxPodCPUm),
                       !.MinNodeMiB = minMemMiB(profile.MaxPodMemMiB)]
      r  == [r1 EXCEPT !.CPUSizes = cpuSizes(r1.MinNodeCPU)]
  IN CASE provider = ProviderAWS -> buildAWS(r, profile, wtype, mode)
       [] provider = ProviderAzure -> buildAzure(r, profile, wtype, mode)
       [] provider = ProviderGCP -> buildGCP(r, profile, wtype, mode)
       [] OTHER -> [r EXCEPT !.Reasoning =
                      Append(r.Reasoning, "Provider unknown - showing generic guidance only")]

\* ------------------------------------------------------------------------
\* Calls of internal/kube and internal/nodes
\* ------------------------------------------------------------------------

\* Running pods counted, and what each of them requests.
PodCounts == {0, 1, 3}

PodCPUm == {0, 100, 500, 1000, 1666, 1667, 2000, 2500, 3334, 4000, 4167,
            7000, 7500, 13333, 13334, 20000}

PodMemMiB == {0, 512, 1024, 1639, 2048, 4096, 4097, 8192, 13108, 20000, 30000}

\* The profiles AnalyzeWorkloads returns for these clusters.
Profiles ==
  { AnalyzeWorkloads(n, c, m, g, b) :
      n \in PodCounts, c \in PodCPUm, m \in PodMemMiB, g \in BOOLEAN, b \in BOOLEAN }

\* The three modes and a string that is none of them.
Modes == {ModeCostOptimized, ModeBalanced, ModeHighPerformance, "fastest"}

CallClassifyWorkload ==
  /\ fn = "none"
  /\ \E p \in Profiles :
       /\ arg' = [p |-> p]
       /\ out' = ClassifyWorkload(p)
  /\ fn' = "ClassifyWorkload"
  /\ UNCHANGED <<serverVars, serveVars, tuiVars>>

CallBuild ==
  /\ fn = "none"
  /\ \E profile \in Profiles, mode \in Modes, provider \in Providers :
       /\ arg' = [profile |-> profile, mode |-> mode, provider |-> provider]
       /\ out' = Build(profile, mode, provider)
  /\ fn' = "Build"
  /\ UNCHANGED <<serverVars, serveVars, tuiVars>>

NodesNext ==
  \/ CallClassifyWorkload
  \/ CallBuild

NodesSpec == Idle /\ [][NodesNext]_vars

\* ------------------------------------------------------------------------
\* Properties
\* ------------------------------------------------------------------------

\* The goroutines whose call of inspectContext has started and not returned.
InFlight == {i \in Tasks : pc[i] \in {"provider", "version", "helm", "compat", "return"}}

\* inspectContext has returned for goroutine i.
Finished(i) == pc[i] \in {"release", "done", "exit"}

\* The pipeline of goroutine i has ended: with Error set, or with all its steps run.
Terminal(i) == pc[i] \in {"return", "release", "done", "exit"}

Pipeline == <<"provider", "version", "controller", "compat">>

IsPrefix(a, b) == Len(a) <= Len(b) /\ a = SubSeq(b, 1, Len(a))

\* Which step of goroutine i failed, read from the answers it received.
ProviderFailed(i) == resp[i].node # <<>> /\ ~resp[i].node[1].ok

VersionFetchFailed(i) == resp[i].timedOut \/ (resp[i].version # <<>> /\ ~resp[i].version[1].ok)

ControllerFailed(i) == resp[i].helm # <<>> /\ ~resp[i].helm[1].ok

ReleaseFetchFailed(i) == resp[i].releases # <<>> /\ ~resp[i].releases[1].ok

\* C1: checkClusters returns as many statuses as it was given contexts, and
\* the i-th status carries the i-th context, whatever the order in which the
\* inspections ended.
C1_ShapeAndOrder ==
  returned # <<>> =>
    /\ Len(returned[1]) = Len(contexts)
    /\ \A i \in Tasks : returned[1][i].Context = contexts[i]

\* C1 witness: a list with the same context twice was inspected, one of the
\* two inspections ended on an unreachable cluster, and the call returned.
C1_Witness ==
  /\ returned # <<>>
  /\ contexts = <<"a", "a">>
  /\ returned[1][1].Error # ErrNone
  /\ returned[1][2].Error = ErrNone

\* C2: never more than 8 calls of inspectContext are in flight, and while 8
\* are, a goroutine that has not got its token cannot go on.
C2_AtMostEightInFlight ==
  /\ Cardinality(InFlight) <= 8
  /\ Cardinality(InFlight) = 8 =>
       \A i \in Tasks : pc[i] = "acquire" => ~ENABLED Acquire(i)

\* C2 witness: 8 inspections are in flight and another one is waiting.
C2_Witness ==
  /\ Cardinality(InFlight) = 8
  /\ \E i \in Tasks : pc[i] = "acquire"

\* C3 (as claimed): whichever step fails, Error is set and no later step runs.
C3_AnyFailureSetsError ==
  \A i \in Tasks :
    /\ ProviderFailed(i) => s[i].Error # ErrNone /\ steps[i] = SubSeq(Pipeline, 1, 1)
    /\ VersionFetchFailed(i) => s[i].Error # ErrNone /\ steps[i] = SubSeq(Pipeline, 1, 2)
    /\ ControllerFailed(i) => s[i].Error # ErrNone /\ steps[i] = SubSeq(Pipeline, 1, 3)
    /\ ReleaseFetchFailed(i) => s[i].Error # ErrNone

\* C4 (as claimed): a failed fetch of the release index shows in the Error of
\* the status returned for that cluster.
C4_ReleaseFailureSurfaced ==
  returned # <<>> =>
    \A i \in Tasks : ReleaseFetchFailed(i) => returned[1][i].Error # ErrNone

\* C5 (as claimed): checkClusters returns in the end, also when a cluster
\* never answers.
C5_EventuallyReturns == <>(mainPc = "returned")

\* C6: the status stored for contexts[i] is the one inspectContext computes
\* from the answers given to inspection i alone; nothing of another
\* inspection enters it, in any interleaving.
C6_OwnAnswersOnly ==
  /\ \A i \in Tasks :
       Finished(i) => results[i] = inspectContext(contexts[i], URLOf(i), resp[i])
  /\ returned # <<>> =>
       \A i \in Tasks :
         returned[1][i] = inspectContext(contexts[i], URLOf(i), resp[i])

\* C6 witness: two clusters were inspected, one timed out and the other was
\* inspected to the end, and both statuses were returned.
C6_Witness ==
  /\ returned # <<>>
  /\ contexts = <<"a", "b">>
  /\ resp[1].timedOut
  /\ steps[2] = Pipeline
  /\ returned[1][2].Error = ErrNone

\* C7: an inspection whose version fetch passed its deadline ends with the
\* timeout as its Error, no Kubernetes version, and neither controller
\* detection nor the compatibility check run; one whose fetch was answered
\* in time is not reported as timed out.
C7_TimeoutStatus ==
  \A i \in Tasks :
    /\ resp[i].timedOut =>
         /\ Terminal(i)
         /\ s[i].Error = ErrTimeout
         /\ s[i].K8sVersion = NoStr
         /\ steps[i] = SubSeq(Pipeline, 1, 2)
         /\ Finished(i) => results[i] = s[i]
    /\ resp[i].version # <<>> =>
         /\ s[i].Error # ErrTimeout
         /\ Finished(i) => results[i].Error # ErrTimeout

\* C7 witness: one inspection timed out and was stored, another got its
\* version in time.
C7_Witness ==
  /\ N = 2
  /\ resp[1].timedOut /\ Finished(1)
  /\ resp[2].version # <<>> /\ resp[2].version[1].ok

\* C8: the steps of an inspection run at most once each and in the order
\* provider, version, controller, compatibility, the last one for AWS only;
\* an inspection with Error set has ended; and once it has ended, its steps
\* and its status never change again.
C8_StepsInOrder ==
  \A i \in Tasks :
    /\ IsPrefix(steps[i], Pipeline)
    /\ Len(steps[i]) = 4 => s[i].Provider = ProviderAWS
    /\ s[i].Error # ErrNone => Terminal(i)
    /\ Terminal(i) /\ s[i].Error = ErrNone =>
         steps[i] = (IF s[i].Provider = ProviderAWS THEN Pipeline ELSE SubSeq(Pipeline, 1, 3))

C8_EndIsFinal ==
  \A i \in Tasks :
    Terminal(i) => Terminal(i)' /\ steps'[i] = steps[i] /\ s'[i] = s[i]

C8_PipelineOnce == []C8_StepsInOrder /\ [][C8_EndIsFinal]_vars

\* C8 witness: an AWS inspection ran all four steps and ended, next to one
\* that ended in Error after two.
C8_Witness ==
  /\ N = 2
  /\ pc[1] = "exit" /\ steps[1] = Pipeline
  /\ pc[2] = "exit" /\ Len(steps[2]) = 2 /\ s[2].Error # ErrNone

\* C9: with more contexts than tokens and every inspection ending,
\* checkClusters returns in the end, and when it does every goroutine has
\* run to its end, every slot of results is assigned and no token is held.
C9_AllDone ==
  mainPc = "returned" =>
    /\ \A i \in Tasks : pc[i] = "exit" /\ writes[i] = <<i>>
    /\ sem = 0
    /\ wg = 0

C9_PoolCompletes == <>(mainPc = "returned") /\ []C9_AllDone

\* C9 witness: checkClusters returned after inspecting more contexts than
\* the semaphore has tokens.
C9_Witness ==
  /\ mainPc = "returned"
  /\ N > SemCap
  /\ \A i \in Tasks : pc[i] = "exit"

\* C10: results has a slot per context before any goroutine exists; slot i is
\* assigned at most once, by goroutine i, and holds what that goroutine
\* computed; the caller gets results only when every goroutine has ended.
C10_SlotsDisjoint ==
  /\ (\E i \in Tasks : pc[i] # "unborn") => Len(results) = N
  /\ \A i \in Tasks :
       /\ writes[i] \in {<<>>, <<i>>}
       /\ Finished(i) <=> writes[i] = <<i>>
       /\ ~Finished(i) /\ mainPc # "start" => results[i] = ClusterStatus
  /\ returned # <<>> =>
       /\ returned[1] = results
       /\ \A i \in Tasks : pc[i] = "exit" /\ writes[i] = <<i>>

\* C10 witness: two goroutines each assigned their slot and the caller got
\* the slice.
C10_Witness ==
  /\ returned # <<>>
  /\ N = 2
  /\ writes = <<(<<1>>), (<<2>>)>>
  /\ results[1] # results[2]

\* The goroutines whose semaphore token is back in the channel.
SlotReleased(i) == pc[i] \in {"done", "exit"}

\* The inspections with a GetServerVersion call still running: the one
\* withTimeout is waiting for, or one left behind by a timeout.
VersionCallsRunning == {i \in Tasks : pc[i] = "version" \/ fetch[i] = "leaked"}

\* C26: once the version fetch of a cluster has timed out and its token is
\* released, no call to that cluster is still running, so at most 8
\* GetServerVersion calls run at the same time.
C26_NoCallOutlivesItsSlot ==
  /\ \A i \in Tasks : SlotReleased(i) => i \notin VersionCallsRunning
  /\ Cardinality(VersionCallsRunning) <= SemCap

\* C27: UpgradeAvailable is set only when the best compatible version is
\* strictly greater, by semver, than the installed controller version.
C27_UpgradeOnlyToNewer ==
  \A i \in Tasks :
    (Terminal(i) /\ s[i].UpgradeAvailable) =>
      GreaterThan(NewVersion(s[i].LatestCompatible), NewVersion(s[i].KarpenterVersion))

\* The status is consistent in itself.
Consistent(st) ==
  /\ (st.Compatible # "nil") <=>
       (st.Error = ErrNone /\ st.Provider = ProviderAWS /\ st.KarpenterInstalled)
  /\ st.UpgradeAvailable =>
       (st.KarpenterInstalled /\ st.Provider = ProviderAWS /\ st.LatestCompatible # NoStr)
  /\ st.Error # ErrNone =>
       /\ ~st.KarpenterInstalled
       /\ st.Compatible = "nil"
       /\ ~st.UpgradeAvailable
       /\ st.K8sVersion = NoStr
       /\ st.KarpenterVersion = NoStr
       /\ st.LatestCompatible = NoStr
       /\ st.MinCompatible = NoStr

\* C28: every status inspectContext returns is consistent: Compatible is set
\* exactly when Error is empty, the provider is aws and the controller is
\* installed; UpgradeAvailable implies installed, aws and a non-empty
\* LatestCompatible; a non-empty Error implies not installed, Compatible
\* unset, no upgrade and empty version fields.
C28_StatusConsistent ==
  /\ \A i \in Tasks : Terminal(i) => Consistent(s[i])
  /\ \A i \in 1..Len(results) : writes[i] # <<>> => Consistent(results[i])

\* C28 witness: checkClusters returned a status with an error next to one
\* with a verdict and the upgrade flag.
C28_Witness ==
  /\ returned # <<>>
  /\ N = 2
  /\ results[1].Error # ErrNone
  /\ results[2].Compatible = "true"
  /\ results[2].UpgradeAvailable

ControllerParses(karpVersion) == NewVersionOk(TrimPrefixV(karpVersion))

\* The cluster version parses: semver.NewVersion(normalise(s)).
ClusterParses(k8sVersion) == NewVersionOk(normalise(k8sVersion))

\* The indices of the rules whose constraint admits the controller version.
RulesContaining(karpVersion) ==
  {r \in 1..Len(compatMatrix) :
     Check(compatMatrix[r], NewVersion(TrimPrefixV(karpVersion)))}

\* The indices of the rules whose Kubernetes range contains the version.
RulesCovering(k8sVersion) ==
  {r \in 1..Len(compatMatrix) :
     /\ Compare(NewVersion(normalise(k8sVersion)), Ver(compatMatrix[r].k8sMin)) >= 0
     /\ Compare(NewVersion(normalise(k8sVersion)), Ver(compatMatrix[r].k8sMax)) <= 0}

\* How often x occurs in the sequence xs.
Count(x, xs) == Cardinality({i \in 1..Len(xs) : xs[i] = x})

\* The string written as a bare three-component version: no "v", missing
\* components as zeros, no "-" or "+" suffix.
Plain(str) ==
  [v    |-> FALSE,
   nums |-> IF Len(str.nums) \in 1..2
            THEN [i \in 1..3 |-> IF i <= Len(str.nums) THEN str.nums[i] ELSE 0]
            ELSE str.nums,
   pre  |-> "",
   meta |-> ""]

\* C11: IsCompatible answers false when the controller version does not
\* parse, when the cluster version does not parse, and when no rule of the
\* matrix contains the controller version (so for every version below
\* 0.33.0 and every version from 2.0.0 on), whatever the cluster version.
C11_FailClosed ==
  fn = "IsCompatible" =>
    /\ ~ControllerParses(arg.karpVersion) => out = FALSE
    /\ ~ClusterParses(arg.k8sVersion) => out = FALSE
    /\ ControllerParses(arg.karpVersion) =>
         LET n == NewVersion(TrimPrefixV(arg.karpVersion)).n IN
         /\ RulesContaining(arg.karpVersion) = {} => out = FALSE
         /\ CompareNums(n, <<0, 33, 0>>) < 0 => out = FALSE
         /\ CompareNums(n, <<2, 0, 0>>) >= 0 => out = FALSE

\* C11 witness: calls that were answered false for each of the three
\* reasons exist; this one has a known controller version and "garbage" as
\* the cluster version.
C11_Witness ==
  /\ fn = "IsCompatible"
  /\ arg.karpVersion = VStr(<<1, 4, 0>>)
  /\ arg.k8sVersion = VStr(<<-1>>)
  /\ out = FALSE

\* C12: for inputs that parse, the answer is that of the first rule, in
\* declaration order, whose constraint admits the controller version: true
\* exactly when the cluster version lies in that rule's inclusive range.
C12_FirstRuleDecides ==
  (fn = "IsCompatible" /\ ControllerParses(arg.karpVersion) /\ ClusterParses(arg.k8sVersion)) =>
    LET hits == RulesContaining(arg.karpVersion)
        k8sv == NewVersion(normalise(arg.k8sVersion))
    IN IF hits = {} THEN out = FALSE
       ELSE LET first == CHOOSE r \in hits : \A q \in hits : r <= q IN
            out = (/\ Compare(k8sv, Ver(compatMatrix[first].k8sMin)) >= 0
                   /\ Compare(k8sv, Ver(compatMatrix[first].k8sMax)) <= 0)

\* C12 witness: a cluster version at the very top of the matching rule's
\* range was answered true.
C12_Witness ==
  /\ fn = "IsCompatible"
  /\ arg.karpVersion = VStr(<<1, 3, 0>>)
  /\ arg.k8sVersion = VStr(<<1, 32, 99>>)
  /\ out = TRUE

\* C13: the answer of IsCompatible does not depend on the spelling of its
\* inputs: a leading "v", missing components written as zeros and a "-" or
\* "+" suffix on either input leave it unchanged.
C13_SpellingIndependent ==
  fn = "IsCompatible" =>
    out = IsCompatible(Plain(arg.karpVersion), Plain(arg.k8sVersion))

\* C14: the list FilterCompatible returns is strictly descending by semver
\* comparison.
C14_StrictlyDescending ==
  fn = "FilterCompatible" =>
    \A i \in 1..(Len(out.list) - 1) :
      GreaterThan(NewVersion(out.list[i]), NewVersion(out.list[i + 1]))

\* C15: FilterCompatible returns exactly the compatible candidates, each as
\* often as the input holds it, and leaves the input list as it was.
C15_ExactlyTheCompatible ==
  fn = "FilterCompatible" =>
    /\ \A i \in 1..Len(out.list) : IsCompatible(out.list[i], arg.k8sVersion)
    /\ \A c \in Candidates :
         Count(c, out.list) =
           IF IsCompatible(c, arg.k8sVersion) THEN Count(c, arg.available) ELSE 0
    /\ out.available = arg.available

\* C15 witness: a list with compatible and incompatible candidates was
\* filtered and reordered.
C15_Witness ==
  /\ fn = "FilterCompatible"
  /\ Len(out.list) = 2
  /\ Len(arg.available) = 3
  /\ out.list # SelectSeq(arg.available, LAMBDA x : IsCompatible(x, arg.k8sVersion))

\* C16: LatestCompatible returns ("", nil, error) when the fetch fails,
\* ("", nil, nil) when no fetched release is compatible, and otherwise
\* (best, all, nil) with all = FilterCompatible(k, fetched) and best its first
\* element, which no compatible fetched release exceeds.
C16_LatestCompatible ==
  fn = "LatestCompatible" =>
    LET tags == arg.fetched.tags
        good == {i \in 1..Len(tags) : IsCompatible(tags[i], arg.k8sVersion)}
    IN IF ~arg.fetched.ok
       THEN out = [latest |-> NoStr, all |-> <<>>, err |-> TRUE]
       ELSE IF good = {}
       THEN out = [latest |-> NoStr, all |-> <<>>, err |-> FALSE]
       ELSE /\ out.err = FALSE
            /\ out.all = FilterCompatible(arg.k8sVersion, tags)
            /\ out.latest = out.all[1]
            /\ \A i \in good :
                 ~GreaterThan(NewVersion(tags[i]), NewVersion(out.latest))

\* C16 witness: several compatible releases were fetched and the best one
\* was not the first fetched.
C16_Witness ==
  /\ fn = "LatestCompatible"
  /\ arg.fetched.ok
  /\ Len(out.all) >= 2
  /\ out.latest # arg.fetched.tags[1]
  /\ IsCompatible(arg.fetched.tags[1], arg.k8sVersion)

\* C17: MinCompatibleKarpenter returns the smallest lower bound among the
\* rules whose Kubernetes range contains the cluster version, "" when there
\* is no such rule or the version does not parse, and "0.33.0" for 1.27.5.
C17_MinCompatibleKarpenter ==
  fn = "MinCompatibleKarpenter" =>
    /\ IF ~ClusterParses(arg.k8sVersion) \/ RulesCovering(arg.k8sVersion) = {}
       THEN out = NoStr
       ELSE /\ \E r \in RulesCovering(arg.k8sVersion) : out = VStr(compatMatrix[r].lo)
            /\ \A r \in RulesCovering(arg.k8sVersion) :
                 CompareNums(out.nums, compatMatrix[r].lo) <= 0
    /\ arg.k8sVersion = VStr(<<1, 27, 5>>) => out = VStr(<<0, 33, 0>>)

\* C17 witness: the call for 1.27.5, which three rules cover.
C17_Witness ==
  /\ fn = "MinCompatibleKarpenter"
  /\ arg.k8sVersion = VStr(<<1, 27, 5>>)
  /\ Cardinality(RulesCovering(arg.k8sVersion)) = 3
  /\ out = VStr(<<0, 33, 0>>)

\* C18 as stated: IsCompatible("1.3.0", "1.31.0") is true and
\* IsCompatible("1.5.0", "1.31.0") is false.
C18_FixtureAsStated ==
  fn = "IsCompatible" =>
    /\ (arg.karpVersion = VStr(<<1, 3, 0>>) /\ arg.k8sVersion = VStr(<<1, 31, 0>>)) => out = TRUE
    /\ (arg.karpVersion = VStr(<<1, 5, 0>>) /\ arg.k8sVersion = VStr(<<1, 31, 0>>)) => out = FALSE

\* C18 amended: with the embedded matrix both IsCompatible("1.3.0", "1.31.0")
\* and IsCompatible("1.5.0", "1.31.0") are true.
C18_FixtureFromTable ==
  (fn = "IsCompatible" /\ arg.k8sVersion = VStr(<<1, 31, 0>>)) =>
    /\ arg.karpVersion = VStr(<<1, 3, 0>>) => out = TRUE
    /\ arg.karpVersion = VStr(<<1, 5, 0>>) => out = TRUE

\* C18 witness: the call IsCompatible("1.5.0", "1.31.0") was made.
C18_Witness ==
  /\ fn = "IsCompatible"
  /\ arg.karpVersion = VStr(<<1, 5, 0>>)
  /\ arg.k8sVersion = VStr(<<1, 31, 0>>)

\* ------------------------------------------------------------------------
\* Properties of internal/kube and internal/nodes
\* ------------------------------------------------------------------------

\* The vCPU sizes a node can have.
Buckets == {2, 4, 8, 16, 32, 48, 64}

\* C19: ClassifyWorkload decides in this order: GPU flag -> gpu; no requests
\* or no pods -> unknown; ratio > 4 -> memory; ratio < 2, a ratio of 0
\* included -> cpu; batch-job flag -> batch; otherwise general.
C19_DecisionOrder ==
  fn = "ClassifyWorkload" =>
    out = IF arg.p.HasGPU THEN WorkloadGPU
          ELSE IF arg.p.NoRequests \/ arg.p.TotalPods = 0 THEN WorkloadUnknown
          ELSE IF RatioGT(arg.p.MemPerCPUGiB, 4) THEN WorkloadMemory
          ELSE IF RatioLT(arg.p.MemPerCPUGiB, 2) THEN WorkloadCPU
          ELSE IF arg.p.HasBatchJobs THEN WorkloadBatch
          ELSE WorkloadGeneral

\* C20: Build's MinNodeCPU is at least 2 and is the smallest vCPU bucket that
\* is no less than 1.2 x MaxPodCPUm / 1000, so MinNodeCPU x 1000 is never
\* below 1.2 x MaxPodCPUm.
C20_MinNodeCPUCoversLargestPod ==
  fn = "Build" =>
    /\ out.MinNodeCPU >= 2
    /\ out.MinNodeCPU \in Buckets
    /\ out.MinNodeCPU * 10000 >= 12 * arg.profile.MaxPodCPUm
    /\ \A b \in Buckets :
         b * 10000 >= 12 * arg.profile.MaxPodCPUm => out.MinNodeCPU <= b

\* The memory sizes minMemMiB can return.
MemBuckets == {2048, 4096, 8192, 16384, 32768}

\* The providers Build has a table for.
SupportedProviders == {ProviderAWS, ProviderAzure, ProviderGCP}

\* C21: Build's MinNodeMiB is at least 2048 and is the smallest memory bucket
\* that is no less than 1.25 x MaxPodMemMiB, so MinNodeMiB is never below
\* 1.25 x MaxPodMemMiB.
C21_MinNodeMiBCoversLargestPod ==
  fn = "Build" =>
    /\ out.MinNodeMiB >= 2048
    /\ out.MinNodeMiB \in MemBuckets
    /\ out.MinNodeMiB * 100 >= 125 * arg.profile.MaxPodMemMiB
    /\ \A b \in MemBuckets :
         b * 100 >= 125 * arg.profile.MaxPodMemMiB => out.MinNodeMiB <= b

\* C22: for a supported provider, whatever the mode and the archetype, Build
\* returns non-empty InstanceFamilies, Architectures and CapacityTypes and
\* one to three reasoning strings.
C22_NoEmptyCell ==
  (fn = "Build" /\ arg.provider \in SupportedProviders) =>
    /\ Len(out.InstanceFamilies) > 0
    /\ Len(out.Architectures) > 0
    /\ Len(out.CapacityTypes) > 0
    /\ Len(out.Reasoning) \in 1..3

\* C22 witness: a call for a supported provider with a mode that is none of
\* the three known ones and a workload that could not be classified.
C22_Witness ==
  /\ fn = "Build"
  /\ arg.provider = ProviderGCP
  /\ arg.mode \notin {ModeCostOptimized, ModeBalanced, ModeHighPerformance}
  /\ out.WorkloadType = WorkloadUnknown
  /\ Len(out.InstanceFamilies) > 0

\* C23: for an unsupported provider Build returns exactly one reasoning
\* string, the generic guidance, and empty InstanceFamilies, CapacityTypes,
\* Architectures and CPUSizes.
C23_UnsupportedProviderIsEmpty ==
  (fn = "Build" /\ arg.provider \notin SupportedProviders) =>
    /\ out.Reasoning = <<"Provider unknown - showing generic guidance only">>
    /\ out.InstanceFamilies = <<>>
    /\ out.CapacityTypes = <<>>
    /\ out.Architectures = <<>>
    /\ out.CPUSizes = <<>>

\* The profiles whose batch-job flag is the opposite of p's and whose other
\* observations are those of p.
BatchFlipped(p) == DerivedRatios([p EXCEPT !.HasBatchJobs = ~p.HasBatchJobs])

\* C24: two calls of Build that agree on provider, mode and classified
\* archetype return the same InstanceFamilies, Architectures and
\* CapacityTypes, whatever the other fields of the profile are.
C24_SelectionByKeyAlone ==
  fn = "Build" =>
    \A q \in {arg.profile, BatchFlipped(arg.profile)} :
      ClassifyWorkload(q) = out.WorkloadType =>
        LET other == Build(q, arg.mode, arg.provider) IN
        /\ other.InstanceFamilies = out.InstanceFamilies
        /\ other.Architectures = out.Architectures
        /\ other.CapacityTypes = out.CapacityTypes

\* ------------------------------------------------------------------------
\* Properties of internal/tui
\* ------------------------------------------------------------------------

\* The dashboard has a row for ctx that is still Checking.
IsChecking(ctx) ==
  \E i \in 1..Len(clusters) : clusters[i].Context = ctx /\ clusters[i].Checking

\* No command is running: no message is on its way to Update, and only a
\* key press can change the model.
Quiescent ==
  /\ loads = 0
  /\ \A nm \in Names : checks[nm] = 0
  /\ PendingNavs = 0

\* C29: every row loaded in the Checking state leaves it, whatever keys are
\* pressed while its check is running.  Stated so that a finite run refutes
\* it: when the dashboard is shown and every command has delivered its
\* message, no row is left Checking (such a row stays Checking for as long
\* as the user presses nothing).
C29_NoRowStuckChecking ==
  (Running /\ OnDashboard /\ Quiescent) => \A ctx \in Names : ~IsChecking(ctx)

\* C30: whenever the dashboard has rows, the cursor is the index of one of
\* them.
C30_CursorSelectsARow ==
  Len(clusters) > 0 => cursor \in 0..(Len(clusters) - 1)

====
